---- MODULE Spec2Model ----
(***************************************************************************)
(* Model of the Starsector extension for Vortex: the version comparator    *)
(* (isRemoteVersionNewer), the update check                                *)
(* (checkForStarsectorModsUpdates), the metadata reader (readModMetadata), *)
(* parseJson, the installer (installContent) and the migration             *)
(* (migrateFrom_1_2_2).                                                    *)
(*                                                                         *)
(* JavaScript strings are sequences of one-character strings.  A JavaScript*)
(* value that may be null or undefined is a record with a tag field t.     *)
(***************************************************************************)
EXTENDS Integers, Sequences, FiniteSets, TLC

\* ------------------------------------------------------------------ bounds
\* Longest generated version string handed to the comparator.
MaxLen == 3

\* Most mods handed to one update check.
MaxMods == 2

\* Most candidate files handed to one metadata read.
MaxFiles == 3

\* Most lines of a document handed to parseJson.
MaxLines == 2

\* Most mods the store holds when a migration starts.
MaxMigrated == 2

\* ------------------------------------------------------- JavaScript values
Null == [t |-> "null"]

Undefined == [t |-> "undefined"]

\* The completion of an expression that throws a TypeError.
TypeError == [t |-> "TypeError"]

Str(s) == [t |-> "str", s |-> s]

\* x == null in JavaScript: true of null and of undefined only.
LooseEqNull(v) == v.t \in {"null", "undefined"}

\* ------------------------------------------------------ string primitives
\* UTF-16 code unit of the characters the model uses (String comparison and
\* parseInt go by code unit).
CharCode(c) ==
  CASE c = "-" -> 45
    [] c = "." -> 46
    [] c = "0" -> 48
    [] c = "1" -> 49
    [] c = "2" -> 50
    [] c = "3" -> 51
    [] c = "5" -> 53
    [] c = "6" -> 54
    [] c = "C" -> 67
    [] c = "D" -> 68
    [] c = "R" -> 82
    [] c = "\\" -> 92
    [] c = "a" -> 97

IsDigit(c) == CharCode(c) >= 48 /\ CharCode(c) <= 57

\* String.prototype.indexOf(pat) + 1 for a non-empty pat; 0 when absent.
IndexOf(s, pat) ==
  LET hits == {i \in 1..(Len(s) - Len(pat) + 1) :
                 SubSeq(s, i, i + Len(pat) - 1) = pat}
  IN IF hits = {} THEN 0 ELSE CHOOSE i \in hits : \A j \in hits : i <= j

\* String.prototype.replace(pat, rep) with a STRING pattern: the first
\* literal occurrence of pat is replaced, nothing else.
ReplaceFirst(s, pat, rep) ==
  LET i == IndexOf(s, pat)
  IN IF i = 0 THEN s
     ELSE SubSeq(s, 1, i - 1) \o rep \o SubSeq(s, i + Len(pat), Len(s))

\* String.prototype.split(sep) with a non-empty string separator that
\* cannot overlap itself (every separator of this program: "-", "." and
\* backslash-dot): the pieces between the occurrences of sep.
Split(s, sep) ==
  LET occ == {i \in 1..(Len(s) - Len(sep) + 1) : SubSeq(s, i, i + Len(sep) - 1) = sep}
      \* start of piece k: after the (k-1)-th occurrence
      start == [k \in 1..(Cardinality(occ) + 1) |->
                 IF k = 1 THEN 1
                 ELSE (CHOOSE i \in occ : Cardinality({j \in occ : j < i}) = k - 2) + Len(sep)]
      stop == [k \in 1..(Cardinality(occ) + 1) |->
                IF k = Cardinality(occ) + 1 THEN Len(s)
                ELSE (CHOOSE i \in occ : Cardinality({j \in occ : j < i}) = k - 1) - 1]
  IN [k \in 1..(Cardinality(occ) + 1) |-> SubSeq(s, start[k], stop[k])]

\* String.prototype.split(sep, limit): all the pieces, truncated to limit.
SplitLimit(s, sep, limit) ==
  LET all == Split(s, sep)
  IN IF Len(all) <= limit THEN all ELSE SubSeq(all, 1, limit)

\* The result of parseInt when no digit leads the string.
NaN == -1

RECURSIVE DigitsValue(_, _)
DigitsValue(s, acc) ==
  IF s = <<>> \/ ~IsDigit(Head(s)) THEN acc
  ELSE DigitsValue(Tail(s), acc * 10 + (CharCode(Head(s)) - 48))

\* parseInt(s) on the model's alphabet (no whitespace, sign or 0x prefix):
\* the value of the longest prefix of decimal digits, NaN when it is empty.
ParseInt(s) ==
  IF s = <<>> \/ ~IsDigit(Head(s)) THEN NaN ELSE DigitsValue(s, 0)

\* a > b on numbers: false as soon as either side is NaN.
NumGT(a, b) == a # NaN /\ b # NaN /\ a > b

\* String.prototype.padEnd(width, fill) with a one-character fill.
RECURSIVE PadEnd(_, _, _)
PadEnd(s, width, fill) ==
  IF Len(s) >= width THEN s ELSE PadEnd(Append(s, fill), width, fill)

\* ------------------------------------------------------ version comparator
\* The literal patterns of isRemoteVersionNewer.  They are string literals,
\* not regular expressions, so each stands for itself.
NonVersionPattern == <<"[", "^", "0", "-", "9", ".", "-", "]">>

NonDigitPattern == <<"\\", "D">>

DotPattern == <<"\\", ".">>

Dash == <<"-">>

\* Outcome of a call: "true", "false", or "TypeError" when it throws.
IsRemoteVersionNewer(localVersion, remoteVersion) ==
  IF LooseEqNull(localVersion) \/ LooseEqNull(remoteVersion) THEN "false"
  ELSE
    LET localRaw == SplitLimit(ReplaceFirst(localVersion.s, NonVersionPattern, <<>>), Dash, 2)
        remoteRaw == SplitLimit(ReplaceFirst(remoteVersion.s, NonVersionPattern, <<>>), Dash, 2)
        vLocal == localRaw[1]
        vRemote == remoteRaw[1]
        rcLocalRaw == IF Len(localRaw) > 1
                      THEN ReplaceFirst(localRaw[2], NonDigitPattern, <<>>)
                      ELSE <<"0">>
        rcRemoteRaw == IF Len(remoteRaw) > 1
                       THEN ReplaceFirst(remoteRaw[2], NonDigitPattern, <<>>)
                       ELSE <<"0">>
        rcLocal == IF Len(rcLocalRaw) = 0 THEN 0 ELSE ParseInt(rcLocalRaw)
        rcRemote == IF Len(rcRemoteRaw) = 0 THEN 0 ELSE ParseInt(rcRemoteRaw)
        localMajorMinor == Split(vLocal, DotPattern)
        remoteMajorMinor == Split(vRemote, DotPattern)
        common == IF Len(localMajorMinor) < Len(remoteMajorMinor)
                  THEN Len(localMajorMinor) ELSE Len(remoteMajorMinor)
        \* number of leading segments the while loop steps over
        differ == {k \in 1..common : localMajorMinor[k] # remoteMajorMinor[k]}
        i == IF differ = {} THEN common
             ELSE (CHOOSE k \in differ : \A j \in differ : k <= j) - 1
    IN IF vLocal # vRemote
       THEN IF i < Len(localMajorMinor) /\ i < Len(remoteMajorMinor)
            \* remotePadded.compareTo is not a function of a JavaScript
            \* string: the call throws before any comparison is made
            THEN "TypeError"
            ELSE IF Len(remoteMajorMinor) > Len(localMajorMinor)
                 THEN "true" ELSE "false"
       ELSE IF NumGT(rcRemote, rcLocal) THEN "true" ELSE "false"

\* --------------------------------------------------------------- semver
Dot == <<".">>

AllDigits(s) == s # <<>> /\ \A k \in 1..Len(s) : IsDigit(s[k])

\* A version the semver package accepts, on the model's alphabet:
\* major.minor.patch, each a run of decimal digits.
SemverValid(v) ==
  /\ v.t = "str"
  /\ LET parts == Split(v.s, Dot)
     IN Len(parts) = 3 /\ \A k \in 1..3 : AllDigits(parts[k])

SemverTriple(v) ==
  LET parts == Split(v.s, Dot)
  IN <<DigitsValue(parts[1], 0), DigitsValue(parts[2], 0), DigitsValue(parts[3], 0)>>

\* semver.gt(a, b) on two valid versions: numeric, component by component.
SemverGt(a, b) ==
  \E x \in {SemverTriple(a)}, y \in {SemverTriple(b)} :
    \/ x[1] > y[1]
    \/ x[1] = y[1] /\ x[2] > y[2]
    \/ x[1] = y[1] /\ x[2] = y[2] /\ x[3] > y[3]

\* Array.prototype.sort with semver.rcompare: newest first, stable.
RECURSIVE InsertDescending(_, _)
InsertDescending(e, sorted) ==
  IF sorted = <<>> THEN <<e>>
  ELSE IF SemverGt(e.version, Head(sorted).version)
       THEN <<e>> \o sorted
       ELSE <<Head(sorted)>> \o InsertDescending(e, Tail(sorted))

RECURSIVE SortVersions(_)
SortVersions(versions) ==
  IF versions = <<>> THEN <<>>
  ELSE CHOOSE result \in
         { InsertDescending(versions[Len(versions)], sorted) :
             sorted \in {SortVersions(SubSeq(versions, 1, Len(versions) - 1))} } : TRUE

\* ------------------------------------------------------------------ state
VARIABLES
  localVersion,    \* comparator: first argument of the call
  remoteVersion,   \* comparator: second argument of the call
  cmpResult,       \* comparator: "none" before the call, then its outcome
  gameId,          \* update check: the gameId argument
  mods,            \* update check: Object.values(mods), a sequence of IMod
  now,             \* update check: Date.now() taken when the check starts
  ucPhase,         \* update check: "idle", "fetching", "applying", "done", "rejected"
  fetch,           \* update check: per mod, the state of its getOnlineModVersion promise
  silent,          \* update check: the mods whose remote never answers a request
  pos,             \* update check: the counter of the progress closure
  progressEvents,  \* update check: the addNotification dispatches, in order
  displayed,       \* notification ids the host currently displays
  dismissals,      \* update check: the dismissNotification dispatches, in order
  updates,         \* update check: the updates the for-await loop has yet to apply
  attrWrites,      \* update check: the setModAttribute dispatches, in order
  files,           \* metadata read: the candidate file list handed to readModMetadata
  mdPhase,         \* metadata read: "idle", "readingPrimary", "readingSecondary", "resolved", "rejected"
  mdError,         \* metadata read: "none", or the reason of the rejection
  attributes,      \* metadata read: own properties set on the attributes object
  filesRead,       \* metadata read: the paths handed to fs.readFileAsync, in order
  errorNotifications, \* metadata read: the showErrorNotification calls, in order
  parsed,          \* metadata read: the local parsed, what parseJson gave for mod_info.json
  parsedVerCheckData, \* metadata read: the local parsedVerCheckData, for the .version file
  attributeEntries, \* metadata read: the entries of the Map attributes, in insertion order
  json,            \* parseJson: the text handed to parseJson
  parserInput,     \* parseJson: the text handed on to hjson.parse
  installFiles,    \* install: the files argument of installContent
  icPhase,         \* install: "idle", "reading", "resolved", "rejected"
  instructions,    \* install: the instruction list of the result
  persistentMods,  \* migration: state.persistent.mods[GAME_ID], a sequence of IMod
  oldVersion,      \* migration: the oldVersion argument
  deployment,      \* migration: TRUE when the game is discovered and has an activator
  mgPhase,         \* migration: "idle", "each", "done", "failed"
  nonNexusMods,    \* migration: the mods Promise.each has yet to visit
  failedToMigrate, \* migration: the entries pushed to failedToMigrate
  storeWrites,     \* migration: the setModAttribute dispatches, in order
  notifications    \* migration: the sendNotification calls, in order

cmpVars == <<localVersion, remoteVersion, cmpResult>>

ucVars == <<gameId, mods, now, ucPhase, fetch, silent, pos, progressEvents,
            displayed, dismissals, updates, attrWrites>>

mdVars == <<files, mdPhase, mdError, attributes, filesRead, errorNotifications,
            parsed, parsedVerCheckData, attributeEntries>>

pjVars == <<json, parserInput>>

icVars == <<installFiles, icPhase, instructions>>

mgVars == <<persistentMods, oldVersion, deployment, mgPhase, nonNexusMods, failedToMigrate,
            storeWrites, notifications>>

vars == <<localVersion, remoteVersion, cmpResult, gameId, mods, now, ucPhase,
          fetch, silent, pos, progressEvents, displayed, dismissals, updates, attrWrites,
          files, mdPhase, mdError, attributes, filesRead, errorNotifications,
          parsed, parsedVerCheckData, attributeEntries, json, parserInput,
          installFiles, icPhase, instructions, persistentMods, oldVersion, deployment,
          mgPhase, nonNexusMods, failedToMigrate, storeWrites, notifications>>

\* ----------------------------------------------------- comparator inputs
Alphabet == {"1", "2", ".", "-", "a"}

RECURSIVE StringsOfLen(_)
StringsOfLen(n) ==
  IF n = 0 THEN {<<>>}
  ELSE {Append(s, c) : s \in StringsOfLen(n - 1), c \in Alphabet}

GeneratedStrings == UNION {StringsOfLen(n) : n \in 0..MaxLen}

\* The version strings the documentation and the comments use as examples.
ExampleStrings ==
  { <<"0", ".", "6">>,
    <<"0", ".", "6", "5">>,
    <<"1", ".", "2">>,
    <<"1", ".", "2", ".", "3">>,
    <<"0", ".", "6", "5", ".", "2", "a">>,
    <<"0", ".", "6", "5", ".", "2", "a", "-", "R", "C", "1">>,
    <<"0", ".", "6", "5", ".", "2", "a", "-", "R", "C", "2">>,
    <<"1", "\\", ".", "2">>,
    <<"1", "\\", ".", "2", "\\", ".", "3">>,
    <<"1", "-", "\\", "D", "1">>,
    <<"1", "-", "\\", "D", "2">> }

VersionArgs ==
  {Null, Undefined} \cup {Str(s) : s \in GeneratedStrings \cup ExampleStrings}

\* ----------------------------------------------------------- update check
GAME_ID == "starsector"

\* The notification id the progress closure posts under, and the id the
\* check dismisses at its end.
ProgressNotificationId == "starsector-check-update-progress"

DismissedNotificationId == "bs-check-update-progress"

\* Entries of an IModDetails.versions array.
Version_1_2_0 == [version |-> Str(<<"1", ".", "2", ".", "0">>), _id |-> "file-1.2.0"]

Version_1_10_0 == [version |-> Str(<<"1", ".", "1", "0", ".", "0">>), _id |-> "file-1.10.0"]

Version_bad == [version |-> Str(<<"1", ".", "2">>), _id |-> "file-1.2"]

VersionLists ==
  { <<>>,
    <<Version_1_2_0>>,
    <<Version_1_2_0, Version_1_10_0>>,
    <<Version_bad>>,
    <<Version_1_10_0, Version_bad>> }

\* What the 'modId' attribute of a mod can hold: nothing (getSafe then
\* yields null), the name string the metadata reader stores there, or an
\* object of the IModDetails shape getOnlineModVersion declares.
Details(i, versions) ==
  [t |-> "details", mod |-> i, versions |-> versions]

ModIdAttrs(i) ==
  {Null, Str(<<"a">>)} \cup {Details(i, vs) : vs \in VersionLists}

\* What the 'version' attribute (ModAttributes.displayVersion) can hold.
VersionAttrs ==
  {Undefined, Str(<<"1", ".", "2", ".", "0">>), Str(<<"1", "-", "1">>)}

\* modVersion of the descriptor a remote serves.
RemoteVersions == {Str(<<"1", "-", "2">>), Str(<<"1", "-", "0">>)}

IMod(i, modId, version) ==
  [id |-> i, attributes |-> [modId |-> modId, version |-> version]]

ModLists(n) ==
  { f \in [1..n -> UNION {{IMod(i, a, v) : a \in ModIdAttrs(i), v \in VersionAttrs}
                            : i \in 1..n}] :
      \A i \in 1..n : f[i].id = i }

\* How one HTTP request ends.
FetchFailures == {"networkError", "httpError", "unparsableBody"}

FetchOutcomes ==
  {[kind |-> k, modVersion |-> Undefined] : k \in FetchFailures}
    \cup {[kind |-> "ok", modVersion |-> v] : v \in RemoteVersions}

\* getApiResponse: the handler's value on a 2xx response, null when the
\* request fails or the handler throws.  handled is the handler's outcome:
\* a value, or TypeError when it throws.
GetApiResponse(outcome, handled) ==
  IF outcome.kind \in {"networkError", "httpError"} THEN Null
  ELSE IF handled.t = "TypeError" THEN Null
  ELSE handled

\* The return handler of getOnlineModVersion, on the response body.
\* parseJson throws on an unparsable body; the assignment to
\* mod.onlineVersion throws when mod is a string (module code is strict).
OnlineVersionHandler(mod, outcome) ==
  IF outcome.kind = "unparsableBody" THEN TypeError
  ELSE IF mod.t = "str" THEN TypeError
  ELSE [t |-> "details", mod |-> mod.mod, versions |-> mod.versions,
        onlineVersion |-> outcome.modVersion]

\* getOnlineModVersion(mod) once its request has ended with outcome.
GetOnlineModVersion(mod, outcome) ==
  GetApiResponse(outcome, OnlineVersionHandler(mod, outcome))

\* util.getSafe(su.mod.attributes, ['version'], '0.0.0')
InstalledVersion(modList, su) ==
  LET v == modList[su.mod].attributes.version
  IN IF v.t = "undefined" THEN Str(<<"0", ".", "0", ".", "0">>) ELSE v

\* The filter callback throws on this element of modList.
FilterThrows(modList, su) ==
  \/ su.t # "details"
  \/ Len(su.versions) >= 2 /\ \E k \in 1..Len(su.versions) : ~SemverValid(su.versions[k].version)
  \/ su.versions = <<>>
  \/ ~SemverValid(su.versions[1].version)
  \/ ~SemverValid(InstalledVersion(modList, su))

FilterKeeps(modList, su) ==
  \E sorted \in {SortVersions(su.versions)} :
    SemverGt(sorted[1].version, InstalledVersion(modList, su))

RECURSIVE SelectUpdates(_, _, _)
SelectUpdates(modList, results, k) ==
  IF k > Len(results) THEN <<>>
  ELSE (IF FilterKeeps(modList, results[k])
        THEN <<[update |-> SortVersions(results[k].versions)[1], mod |-> results[k].mod]>>
        ELSE <<>>) \o SelectUpdates(modList, results, k + 1)

\* modList.filter(...).map(...): TypeError when a callback throws.
Updates(modList, results) ==
  IF \E k \in 1..Len(results) : FilterThrows(modList, results[k])
  THEN TypeError
  ELSE [t |-> "array", items |-> SelectUpdates(modList, results, 1)]

\* The progress closure: one addNotification carrying pos * 100 / total
\* (kept as the pair, the quotient need not be an integer), then ++pos.
Progress ==
  /\ progressEvents' = Append(progressEvents,
                              [id |-> ProgressNotificationId, pos |-> pos, total |-> Len(mods)])
  /\ displayed' = displayed \cup {ProgressNotificationId}
  /\ pos' = pos + 1

SetModAttribute(game, modId, key, value) ==
  [gameId |-> game, modId |-> modId, key |-> key, value |-> value]

\* Lines 11-34 and the synchronous start of every mapped async function
\* (lines 35-37, 62-63): a mod whose 'modId' attribute is absent makes
\* getOnlineModVersion throw on mod._id, which rejects Promise.all.
CheckForStarsectorModsUpdates ==
  /\ ucPhase = "idle"
  /\ IF gameId # GAME_ID \/ Len(mods) = 0
     THEN /\ ucPhase' = "done"
          /\ UNCHANGED <<fetch, pos, progressEvents, displayed>>
     ELSE /\ Progress
          /\ fetch' = [i \in 1..Len(mods) |->
                         IF LooseEqNull(mods[i].attributes.modId)
                         THEN [st |-> "threw"]
                         ELSE [st |-> "pending"]]
          /\ ucPhase' = IF \E i \in 1..Len(mods) : LooseEqNull(mods[i].attributes.modId)
                        THEN "rejected" ELSE "fetching"
  /\ UNCHANGED <<gameId, mods, now, silent, dismissals, updates, attrWrites>>
  /\ UNCHANGED <<cmpVars, mdVars, pjVars, icVars, mgVars>>

\* The request of mod i ends (lines 83-93, then line 38).  The request
\* carries no timeout: it ends only when the remote answers or fails.
FetchSettles(i, outcome) ==
  /\ i \in DOMAIN fetch
  /\ fetch[i].st = "pending"
  /\ i \notin silent
  /\ fetch' = [fetch EXCEPT ![i] =
                 [st |-> "settled", outcome |-> outcome,
                  val |-> GetOnlineModVersion(mods[i].attributes.modId, outcome)]]
  /\ UNCHANGED <<gameId, mods, now, ucPhase, silent, pos, progressEvents, displayed,
                 dismissals, updates, attrWrites>>
  /\ UNCHANGED <<cmpVars, mdVars, pjVars, icVars, mgVars>>

ModList == [i \in DOMAIN fetch |-> fetch[i].val]

\* Mutant: the filter runs as soon as one request has ended, on the results
\* at hand, instead of on the joined results of all of them.
JoinAndFilter_eager ==
  /\ ucPhase = "fetching"
  /\ \E i \in DOMAIN fetch : fetch[i].st = "settled"
  /\ \E found \in {Updates(mods, [k \in 1..Len(SelectSeq(fetch, LAMBDA f : f.st = "settled")) |->
                                   SelectSeq(fetch, LAMBDA f : f.st = "settled")[k].val])} :
       IF found.t = "TypeError"
       THEN /\ ucPhase' = "rejected"
            /\ UNCHANGED updates
       ELSE /\ ucPhase' = "applying"
            /\ updates' = found.items
  /\ UNCHANGED <<gameId, mods, now, fetch, silent, pos, progressEvents, displayed,
                 dismissals, attrWrites>>
  /\ UNCHANGED <<cmpVars, mdVars, pjVars, icVars, mgVars>>

\* Promise.all resolves; lines 41-50 run.
JoinAndFilter ==
  /\ ucPhase = "fetching"
  /\ \A i \in DOMAIN fetch : fetch[i].st = "settled"
  /\ \E found \in {Updates(mods, ModList)} :
       IF found.t = "TypeError"
       THEN /\ ucPhase' = "rejected"
            /\ UNCHANGED updates
       ELSE /\ ucPhase' = "applying"
            /\ updates' = found.items
  /\ UNCHANGED <<gameId, mods, now, fetch, silent, pos, progressEvents, displayed,
                 dismissals, attrWrites>>
  /\ UNCHANGED <<cmpVars, mdVars, pjVars, icVars, mgVars>>

\* One iteration of the for-await loop (lines 51-57).
ApplyUpdate ==
  /\ ucPhase = "applying"
  /\ updates # <<>>
  /\ LET modSummary == Head(updates)
     IN attrWrites' = attrWrites \o
          << SetModAttribute(gameId, modSummary.mod, "newestVersion", modSummary.update.version),
             SetModAttribute(gameId, modSummary.mod, "newestFileId", modSummary.update._id),
             SetModAttribute(gameId, modSummary.mod, "lastUpdateTime", now) >>
  /\ Progress
  /\ updates' = Tail(updates)
  /\ UNCHANGED <<gameId, mods, now, ucPhase, fetch, silent, dismissals>>
  /\ UNCHANGED <<cmpVars, mdVars, pjVars, icVars, mgVars>>

\* Line 58, then the function returns.
DismissAndReturn ==
  /\ ucPhase = "applying"
  /\ updates = <<>>
  /\ dismissals' = Append(dismissals, DismissedNotificationId)
  /\ displayed' = displayed \ {DismissedNotificationId}
  /\ ucPhase' = "done"
  /\ UNCHANGED <<gameId, mods, now, fetch, silent, pos, progressEvents, updates, attrWrites>>
  /\ UNCHANGED <<cmpVars, mdVars, pjVars, icVars, mgVars>>

\* --------------------------------------------------------- metadata read
MOD_INFO_FILE == <<"m", "o", "d", "_", "i", "n", "f", "o", ".", "j", "s", "o", "n">>

VERSION_CHECKER_FILE_EXT == <<".", "v", "e", "r", "s", "i", "o", "n">>

STARSECTOR_FORUM_URL == "https://fractalsoftworks.com/forum/index.php"

\* The values of the static members of class ModAttributes.
ModAttributes ==
  [ modSharedId |-> "modSharedId",
    modVariantId |-> "modId",
    modName |-> "modName",
    author |-> "author",
    fileName |-> "fileName",
    source |-> "source",
    forumThreadId |-> "forumThreadId",
    displayVersion |-> "version",
    localVersionCheckerVersion |-> "localVersionCheckerVersion",
    onlineVersionUrl |-> "onlineVersionUrl",
    onlineVersionCheckerVersion |-> "onlineVersionCheckerVersion",
    gameVersion |-> "gameVersion",
    lastUpdateTime |-> "lastUpdateTime" ]

\* A path is the sequence of its segments, a path ending in the separator
\* having an empty last segment; path.basename is the last segment that is
\* not empty.
Basename(file) ==
  IF Len(file) > 1 /\ file[Len(file)] = <<>> THEN file[Len(file) - 1]
  ELSE file[Len(file)]

\* path.extname: from the last '.' of the base name to its end; empty when
\* the base name has no '.' or only a leading one.
Extname(file) ==
  LET base == Basename(file)
      dots == {k \in 1..Len(base) : base[k] = "."}
      last == CHOOSE k \in dots : \A j \in dots : j <= k
  IN IF dots = {} THEN <<>>
     ELSE IF last = 1 THEN <<>>
     ELSE SubSeq(base, last, Len(base))

\* Array.prototype.find: the first element satisfying the test, else
\* undefined.  hits is the set of indexes that satisfy it.
FindFirst(list, hits) ==
  IF hits = {} THEN Undefined
  ELSE [t |-> "path", path |-> list[CHOOSE k \in hits : \A j \in hits : k <= j]]

\* Mutant: any path segment called mod_info.json, or a base name that only
\* ends in it, is taken for the descriptor.
FindModInfoFile_loose(list) ==
  FindFirst(list, {k \in 1..Len(list) :
                     \/ \E j \in 1..Len(list[k]) : list[k][j] = MOD_INFO_FILE
                     \/ LET base == Basename(list[k])
                        IN Len(base) >= Len(MOD_INFO_FILE)
                           /\ SubSeq(base, Len(base) - Len(MOD_INFO_FILE) + 1, Len(base)) = MOD_INFO_FILE})

FindModInfoFile(list) ==
  FindFirst(list, {k \in 1..Len(list) : Basename(list[k]) = MOD_INFO_FILE})

FindVersionCheckerFile(list) ==
  FindFirst(list, {k \in 1..Len(list) : Extname(list[k]) = VERSION_CHECKER_FILE_EXT})

\* String.prototype.trim on the blank character.
RECURSIVE TrimStart(_)
TrimStart(s) == IF s # <<>> /\ Head(s) = " " THEN TrimStart(Tail(s)) ELSE s

RECURSIVE TrimEnd(_)
TrimEnd(s) ==
  IF s # <<>> /\ s[Len(s)] = " " THEN TrimEnd(SubSeq(s, 1, Len(s) - 1)) ELSE s

Trim(s) == TrimEnd(TrimStart(s))

\* Array.prototype.join('.') on a sequence of strings.
RECURSIVE JoinDots(_)
JoinDots(parts) ==
  IF parts = <<>> THEN <<>>
  ELSE IF Len(parts) = 1 THEN parts[1]
  ELSE parts[1] \o <<".">> \o JoinDots(Tail(parts))

\* concatVersionObject: the dotted join of the components that are present,
\* in the order major, minor, patch; a string is returned trimmed.
ConcatVersionObject(version) ==
  IF version.t = "str" THEN Str(Trim(version.s))
  ELSE IF version.t = "version"
  THEN Str(JoinDots(
         (IF version.major.t = "str" THEN <<version.major.s>> ELSE <<>>)
         \o (IF version.minor.t = "str" THEN <<version.minor.s>> ELSE <<>>)
         \o (IF version.patch.t = "str" THEN <<version.patch.s>> ELSE <<>>)))
  ELSE Str(<<>>)

\* obj[k] = v added to the own properties of obj.
SetProperty(obj, k, v) ==
  [x \in DOMAIN obj \cup {k} |-> IF x = k THEN v ELSE obj[x]]

\* The closure getAttr on the parsed data: data[key], or "" when the access
\* throws (data is null).
GetAttr(data, key) ==
  IF data.t = "null" THEN Str(<<>>) ELSE data.fields[key]

\* Lines 205-215: version.trim() when version is a string; otherwise the
\* call of concatVersionObject, whose value is dropped.
NormalizedVersion(version) ==
  IF version.t = "str" THEN Str(Trim(version.s)) ELSE version

\* Lines 217-239 on the parsed mod_info.json.
PrimaryAttributes(attrs, data) ==
  LET version == NormalizedVersion(GetAttr(data, "version"))
      a0 == IF version.t = "str"
            THEN SetProperty(attrs, ModAttributes.displayVersion, version)
            ELSE attrs
      a1 == SetProperty(a0, ModAttributes.modVariantId, GetAttr(data, "name"))
      a2 == SetProperty(a1, ModAttributes.modSharedId, GetAttr(data, "id"))
      a3 == SetProperty(a2, ModAttributes.modName, GetAttr(data, "name"))
      a4 == SetProperty(a3, ModAttributes.author, GetAttr(data, "author"))
  IN SetProperty(a4, ModAttributes.gameVersion, GetAttr(data, "gameVersion"))

\* A value is truthy: neither undefined, null nor the empty string.
Truthy(v) == v.t \notin {"undefined", "null"} /\ ~(v.t = "str" /\ v.s = <<>>)

\* Lines 273-288 on the parsed .version file.
SecondaryAttributes(attrs, data) ==
  LET a1 == SetProperty(attrs, ModAttributes.forumThreadId, GetAttr(data, "modThreadId"))
      a2 == IF Truthy(a1[ModAttributes.forumThreadId])
            THEN SetProperty(a1, ModAttributes.source, STARSECTOR_FORUM_URL)
            ELSE a1
      a3 == SetProperty(a2, ModAttributes.localVersionCheckerVersion,
                        ConcatVersionObject(GetAttr(data, "modVersion")))
  IN SetProperty(a3, ModAttributes.onlineVersionUrl, GetAttr(data, "masterVersionFile"))

\* An object without own properties.
EmptyObject == [x \in {} |-> Undefined]

\* Lines 159-168, the synchronous part of a call of readModMetadata on
\* list: locate mod_info.json; reject when there is none, otherwise ask the
\* filesystem for it.  attributes is a new Map without entries.
ReadModMetadataCall(list) ==
  /\ LET modInfoFile == FindModInfoFile(list)
     IN IF modInfoFile.t = "undefined"
        THEN /\ mdPhase' = "rejected"
             /\ mdError' = "DataInvalid: mod_info.json not found in a folder"
             /\ UNCHANGED filesRead
        ELSE /\ mdPhase' = "readingPrimary"
             /\ mdError' = "none"
             /\ filesRead' = Append(filesRead, modInfoFile.path)
  /\ files' = list
  /\ attributes' = EmptyObject
  /\ attributeEntries' = <<>>
  /\ parsed' = Undefined
  /\ parsedVerCheckData' = Undefined
  /\ UNCHANGED errorNotifications

\* readModMetadata called on its own.
ReadModMetadata ==
  /\ mdPhase = "idle"
  /\ ReadModMetadataCall(files)
  /\ UNCHANGED <<cmpVars, ucVars, pjVars, icVars, mgVars>>

\* Mutant: a mod_info.json that does not parse fails the read.
PrimaryRead_strict(content) ==
  /\ mdPhase = "readingPrimary"
  /\ IF content.t = "readError"
     THEN /\ mdPhase' = "rejected"
          /\ mdError' = "ReadError"
          /\ UNCHANGED <<attributes, filesRead, parsed>>
     ELSE IF content.t = "unparsable"
     THEN /\ mdPhase' = "rejected"
          /\ mdError' = "DataInvalid: Missing, invalid or unsupported mod_info.json"
          /\ UNCHANGED <<attributes, filesRead, parsed>>
     ELSE IF GetAttr(content, "id").t = "undefined"
     THEN /\ mdPhase' = "rejected"
          /\ mdError' = "DataInvalid: Missing, invalid or unsupported mod_info.json"
          /\ parsed' = content
          /\ UNCHANGED <<attributes, filesRead>>
     ELSE /\ attributes' = PrimaryAttributes(attributes, content)
          /\ parsed' = content
          /\ UNCHANGED mdError
          /\ LET versionCheckerFile == FindVersionCheckerFile(files)
             IN IF versionCheckerFile.t = "undefined"
                THEN /\ mdPhase' = "resolved"
                     /\ UNCHANGED filesRead
                ELSE /\ mdPhase' = "readingSecondary"
                     /\ filesRead' = Append(filesRead, versionCheckerFile.path)
  /\ UNCHANGED <<files, errorNotifications, parsedVerCheckData, attributeEntries>>
  /\ UNCHANGED <<cmpVars, ucVars, pjVars, icVars, mgVars>>

\* Lines 169-249 and 292-294: the callback on the text of mod_info.json.
\* content is what reading and parsing the file gives.
PrimaryRead(content) ==
  /\ mdPhase = "readingPrimary"
  /\ IF content.t = "readError"
     THEN /\ mdPhase' = "rejected"
          /\ mdError' = "ReadError"
          /\ UNCHANGED <<attributes, filesRead, parsed>>
     ELSE IF content.t = "unparsable"
     THEN /\ mdPhase' = "resolved"
          /\ UNCHANGED <<mdError, attributes, filesRead, parsed>>
     ELSE IF GetAttr(content, "id").t = "undefined"
     THEN /\ mdPhase' = "rejected"
          /\ mdError' = "DataInvalid: Missing, invalid or unsupported mod_info.json"
          /\ parsed' = content
          /\ UNCHANGED <<attributes, filesRead>>
     ELSE /\ attributes' = PrimaryAttributes(attributes, content)
          /\ parsed' = content
          /\ UNCHANGED mdError
          /\ LET versionCheckerFile == FindVersionCheckerFile(files)
             IN IF versionCheckerFile.t = "undefined"
                THEN /\ mdPhase' = "resolved"
                     /\ UNCHANGED filesRead
                ELSE /\ mdPhase' = "readingSecondary"
                     /\ filesRead' = Append(filesRead, versionCheckerFile.path)
  /\ UNCHANGED <<files, errorNotifications, parsedVerCheckData, attributeEntries>>
  /\ UNCHANGED <<cmpVars, ucVars, pjVars, icVars, mgVars>>

\* Mutant: a .version file that does not parse is reported and fails the read.
SecondaryRead_strict(content) ==
  /\ mdPhase = "readingSecondary"
  /\ IF content.t = "readError"
     THEN /\ mdPhase' = "rejected"
          /\ mdError' = "ReadError"
          /\ UNCHANGED <<attributes, errorNotifications, parsedVerCheckData>>
     ELSE IF content.t = "unparsable"
     THEN /\ mdPhase' = "rejected"
          /\ mdError' = "DataInvalid: invalid .version file"
          /\ errorNotifications' = Append(errorNotifications, filesRead[Len(filesRead)])
          /\ UNCHANGED <<attributes, parsedVerCheckData>>
     ELSE /\ mdPhase' = "resolved"
          /\ attributes' = SecondaryAttributes(attributes, content)
          /\ parsedVerCheckData' = content
          /\ UNCHANGED <<mdError, errorNotifications>>
  /\ UNCHANGED <<files, filesRead, parsed, attributeEntries>>
  /\ UNCHANGED <<cmpVars, ucVars, pjVars, icVars, mgVars>>

\* Lines 250-291: the callback on the text of the .version file.
SecondaryRead(content) ==
  /\ mdPhase = "readingSecondary"
  /\ IF content.t = "readError"
     THEN /\ mdPhase' = "rejected"
          /\ mdError' = "ReadError"
          /\ UNCHANGED <<attributes, errorNotifications, parsedVerCheckData>>
     ELSE IF content.t = "unparsable"
     THEN /\ mdPhase' = "resolved"
          /\ errorNotifications' = Append(errorNotifications, filesRead[Len(filesRead)])
          /\ UNCHANGED <<mdError, attributes, parsedVerCheckData>>
     ELSE /\ mdPhase' = "resolved"
          /\ attributes' = SecondaryAttributes(attributes, content)
          /\ parsedVerCheckData' = content
          /\ UNCHANGED <<mdError, errorNotifications>>
  /\ UNCHANGED <<files, filesRead, parsed, attributeEntries>>
  /\ UNCHANGED <<cmpVars, ucVars, pjVars, icVars, mgVars>>

\* ------------------------------------------------- metadata read inputs
Folder == <<"A">>

VersionFileName == <<"a", ".", "v", "e", "r", "s", "i", "o", "n">>

BareExtensionName == <<".", "v", "e", "r", "s", "i", "o", "n">>

DataFileName == <<"d", ".", "c", "s", "v">>

PrefixedModInfoName == <<"x">> \o MOD_INFO_FILE

\* Candidate paths: files of one folder, and a file inside a folder that
\* is itself called mod_info.json.
CandidatePaths ==
  { <<Folder, MOD_INFO_FILE>>,
    <<Folder, VersionFileName>>,
    <<Folder, BareExtensionName>>,
    <<Folder, DataFileName>>,
    <<Folder, PrefixedModInfoName>>,
    <<MOD_INFO_FILE, DataFileName>> }

RECURSIVE FileListsOfLen(_)
FileListsOfLen(n) ==
  IF n = 0 THEN {<<>>}
  ELSE {Append(l, f) : l \in FileListsOfLen(n - 1), f \in CandidatePaths}

FileLists ==
  { l \in UNION {FileListsOfLen(n) : n \in 0..MaxFiles} :
      \A j, k \in 1..Len(l) : j # k => l[j] # l[k] }

VersionObjects ==
  { [t |-> "version", major |-> Str(<<"0">>), minor |-> Str(<<"6", "5">>), patch |-> Str(<<"2">>)],
    [t |-> "version", major |-> Str(<<"1">>), minor |-> Undefined, patch |-> Undefined] }

ReadError == [t |-> "readError"]

Unparsable == [t |-> "unparsable"]

\* What reading and parsing mod_info.json can give.
PrimaryContents ==
  {ReadError, Unparsable, Null}
    \cup { [t |-> "object",
            fields |-> [id |-> id, name |-> name, author |-> author,
                        gameVersion |-> gameVersion, version |-> version]] :
             id \in {Undefined, Str(<<"i">>)},
             name \in {Undefined, Str(<<"n">>)},
             author \in {Undefined, Str(<<"w">>)},
             gameVersion \in {Undefined, Str(<<"0", ".", "9">>)},
             version \in {Undefined, Str(<<" ", "1", ".", "2", " ">>)} \cup VersionObjects }

\* What reading and parsing the .version file can give.
SecondaryContents ==
  {ReadError, Unparsable, Null}
    \cup { [t |-> "object",
            fields |-> [modThreadId |-> thread, modVersion |-> version,
                        masterVersionFile |-> url]] :
             thread \in {Undefined, Str(<<>>), Str(<<"7">>)},
             version \in {Undefined, Str(<<"1", ".", "2">>)} \cup VersionObjects,
             url \in {Undefined, Str(<<"u">>)} }

\* ------------------------------------------------------------- parseJson
\* COMMENT_STRIPPING_REGEX, first alternative of group 1:
\*   (["'])(?:\\[\s\S]|.)*?\2
\* after the opening quote q, from position p: the position of the closing
\* quote the backtracking matcher stops at, 0 when there is no match.  The
\* lazy star tries to end first; otherwise it takes an escape pair, and only
\* if that leads nowhere a single character other than a line break.
RECURSIVE QuotedEnd(_, _, _)
QuotedEnd(s, q, p) ==
  IF p > Len(s) THEN 0
  ELSE IF s[p] = q THEN p
  ELSE LET viaEscape == IF s[p] = "\\" /\ p + 1 <= Len(s)
                        THEN QuotedEnd(s, q, p + 2) ELSE 0
       IN IF viaEscape # 0 THEN viaEscape
          ELSE IF s[p] # "\n" THEN QuotedEnd(s, q, p + 1)
          ELSE 0

\* The character at position k exists and is matched by '.'.
DotMatches(s, k) == k <= Len(s) /\ s[k] # "\n"

\* Second alternative of group 1:
\*   \#(?![*\#])(?:\\.|\[(?:\\.|.)\]|.)*?\#
\* after the opening '#', from position p: the position of the closing '#',
\* 0 when there is no match.
RECURSIVE HashEnd(_, _)
HashEnd(s, p) ==
  IF p > Len(s) THEN 0
  ELSE IF s[p] = "#" THEN p
  ELSE LET viaEscape == IF s[p] = "\\" /\ DotMatches(s, p + 1)
                        THEN HashEnd(s, p + 2) ELSE 0
           viaEscapedClass == IF /\ s[p] = "["
                                 /\ p + 3 <= Len(s)
                                 /\ s[p + 1] = "\\"
                                 /\ DotMatches(s, p + 2)
                                 /\ s[p + 3] = "]"
                              THEN HashEnd(s, p + 4) ELSE 0
           viaClass == IF /\ s[p] = "["
                          /\ p + 2 <= Len(s)
                          /\ DotMatches(s, p + 1)
                          /\ s[p + 2] = "]"
                       THEN HashEnd(s, p + 3) ELSE 0
       IN IF viaEscape # 0 THEN viaEscape
          ELSE IF viaEscapedClass # 0 THEN viaEscapedClass
          ELSE IF viaClass # 0 THEN viaClass
          ELSE IF s[p] # "\n" THEN HashEnd(s, p + 1)
          ELSE 0

\* Group 1 tried at position i: the last position of its match, 0 when it
\* does not match there.
Group1End(s, i) ==
  IF s[i] \in {"\"", "'"} THEN QuotedEnd(s, s[i], i + 1)
  ELSE IF s[i] = "#" /\ ~(i + 1 <= Len(s) /\ s[i + 1] \in {"*", "#"})
  THEN HashEnd(s, i + 1)
  ELSE 0

\* The alternative \#.*?$ under the m flag, at a '#' at position i: the last
\* position of the line.  It matches at every '#', so the last alternative
\* \#\*[\s\S]*?\*\# is never tried.
LineEnd(s, i) ==
  LET breaks == {k \in (i + 1)..Len(s) : s[k] = "\n"}
  IN IF breaks = {} THEN Len(s)
     ELSE (CHOOSE k \in breaks : \A j \in breaks : k <= j) - 1

\* json.replace(COMMENT_STRIPPING_REGEX, "$1") from position i on: a match
\* of group 1 is kept, any other match is dropped, and the text between
\* matches is copied.
RECURSIVE ReplaceComments(_, _)
ReplaceComments(s, i) ==
  IF i > Len(s) THEN <<>>
  ELSE IF Group1End(s, i) # 0
  THEN SubSeq(s, i, Group1End(s, i)) \o ReplaceComments(s, Group1End(s, i) + 1)
  ELSE IF s[i] = "#" THEN ReplaceComments(s, LineEnd(s, i) + 1)
  ELSE <<s[i]>> \o ReplaceComments(s, i + 1)

\* parseJson: the text is handed to hjson.parse with the matches replaced.
ParseJson ==
  /\ parserInput = Undefined
  /\ parserInput' = Str(ReplaceComments(json, 1))
  /\ UNCHANGED json
  /\ UNCHANGED <<cmpVars, ucVars, mdVars, icVars, mgVars>>

\* ------------------------------------------------------ parseJson inputs
\* The part of a line before its comment: nothing, an unquoted value, and
\* values in double and single quotes that hold a '#', one of them after an
\* escaped quote.
CodeParts ==
  { <<>>,
    <<"k", ":", "1">>,
    <<"k", ":", "\"", "a", "#", "b", "\"">>,
    <<"k", ":", "'", "a", "#", "b", "'">>,
    <<"k", ":", "\"", "a", "\\", "\"", "#", "b", "\"">> }

\* The comment ending a line: none, a plain one, and one that holds a
\* second '#'.
CommentParts ==
  { <<>>,
    <<"#", "c">>,
    <<"#", "c", "#", "d">> }

Lines == {[code |-> code, comment |-> comment] : code \in CodeParts, comment \in CommentParts}

RECURSIVE LineSeqsOfLen(_)
LineSeqsOfLen(n) ==
  IF n = 0 THEN {<<>>}
  ELSE {Append(l, x) : l \in LineSeqsOfLen(n - 1), x \in Lines}

LineSeqs == UNION {LineSeqsOfLen(n) : n \in 0..MaxLines}

\* The text of a sequence of lines, a line break after each line.
RECURSIVE Document(_, _)
Document(lines, withComments) ==
  IF lines = <<>> THEN <<>>
  ELSE Head(lines).code
       \o (IF withComments THEN Head(lines).comment ELSE <<>>)
       \o <<"\n">>
       \o Document(Tail(lines), withComments)

Documents == {Document(lines, TRUE) : lines \in LineSeqs}

\* -------------------------------------------------------- installContent
Sep == "/"

\* The path as the string the code handles.
RECURSIVE JoinPath(_)
JoinPath(file) ==
  IF file = <<>> THEN <<>>
  ELSE IF Len(file) = 1 THEN file[1]
  ELSE file[1] \o <<Sep>> \o JoinPath(Tail(file))

\* path.dirname of a path of at least two segments.
Dirname(file) == SubSeq(file, 1, Len(file) - 1)

\* The destinationPath argument.
DestinationPath == <<"S">>

\* path.join(destinationPath, relativeFile)
AbsoluteFile(relativeFile) == <<DestinationPath>> \o relativeFile

AbsoluteFiles(list) == [k \in 1..Len(list) |-> AbsoluteFile(list[k])]

\* file.startsWith(basePath + path.sep) && !file.endsWith(path.sep)
IsCopied(file, basePath) ==
  /\ Len(file) > Len(basePath)
  /\ SubSeq(file, 1, Len(basePath)) = basePath
  /\ file[Len(file)] # <<>>

\* Lines 102-108: one copy instruction per file under basePath.
CopyInstructions(list, basePath) ==
  LET kept == SelectSeq(list, LAMBDA file : IsCopied(file, basePath))
  IN [k \in 1..Len(kept) |->
        [type |-> "copy",
         source |-> kept[k],
         destination |-> <<Basename(basePath)>>
                           \o SubSeq(kept[k], Len(basePath) + 1, Len(kept[k]))]]

\* Lines 91-97: Map.prototype.forEach calls back with (value, key) for every
\* entry of the Map; the callback names its parameters (key, value).
AttributeInstructions(entries) ==
  [k \in 1..Len(entries) |->
     [type |-> "attribute", key |-> entries[k].value, value |-> entries[k].key]]

\* Lines 74-87: the synchronous part of installContent, up to and including
\* the call of readModMetadata.  path.dirname(undefined) throws when no file
\* is called mod_info.json.
InstallContent ==
  /\ icPhase = "idle"
  /\ mdPhase = "idle"
  /\ LET modInfoFile == FindModInfoFile(installFiles)
     IN IF modInfoFile.t = "undefined"
        THEN /\ icPhase' = "rejected"
             /\ UNCHANGED mdVars
        ELSE IF IndexOf(JoinPath(modInfoFile.path), MOD_INFO_FILE) - 1 > 0
        THEN /\ icPhase' = "reading"
             /\ ReadModMetadataCall(AbsoluteFiles(installFiles))
        ELSE /\ icPhase' = "rejected"
             /\ UNCHANGED mdVars
  /\ UNCHANGED <<installFiles, instructions>>
  /\ UNCHANGED <<cmpVars, ucVars, pjVars, mgVars>>

\* Lines 88-110: the continuations of the promise readModMetadata returned.
InstallInstructions ==
  /\ icPhase = "reading"
  /\ mdPhase \in {"resolved", "rejected"}
  /\ IF mdPhase = "rejected"
     THEN /\ icPhase' = "rejected"
          /\ UNCHANGED instructions
     ELSE /\ icPhase' = "resolved"
          /\ instructions' =
               AttributeInstructions(attributeEntries)
                 \o CopyInstructions(installFiles,
                                     Dirname(FindModInfoFile(installFiles).path))
  /\ UNCHANGED installFiles
  /\ UNCHANGED <<cmpVars, ucVars, mdVars, pjVars, mgVars>>

\* --------------------------------------------------------- install inputs
DirectoryEntry == <<Folder, <<>>>>

\* Relative paths of an archive: the files of one folder, the folder's own
\* entry, a file of another folder, and a mod_info.json outside any folder.
ArchivePaths ==
  { <<Folder, MOD_INFO_FILE>>,
    <<Folder, VersionFileName>>,
    <<Folder, DataFileName>>,
    DirectoryEntry,
    <<<<"B">>, DataFileName>>,
    <<MOD_INFO_FILE>> }

RECURSIVE ArchiveListsOfLen(_)
ArchiveListsOfLen(n) ==
  IF n = 0 THEN {<<>>}
  ELSE {Append(l, f) : l \in ArchiveListsOfLen(n - 1), f \in ArchivePaths}

ArchiveLists ==
  { l \in UNION {ArchiveListsOfLen(n) : n \in 0..MaxFiles} :
      \A j, k \in 1..Len(l) : j # k => l[j] # l[k] }

\* ------------------------------------------------------ migrateFrom_1_2_2
\* const debugMode = false
debugMode == FALSE

Version_1_2_2 == Str(<<"1", ".", "2", ".", "2">>)

\* Object.entries(attributes): the own properties in the order in which
\* readModMetadata creates them.
InsertionOrder ==
  << ModAttributes.displayVersion, ModAttributes.modVariantId, ModAttributes.modSharedId,
     ModAttributes.modName, ModAttributes.author, ModAttributes.gameVersion,
     ModAttributes.forumThreadId, ModAttributes.source,
     ModAttributes.localVersionCheckerVersion, ModAttributes.onlineVersionUrl >>

ObjectEntries(obj) ==
  LET keys == SelectSeq(InsertionOrder, LAMBDA key : key \in DOMAIN obj)
  IN [k \in 1..Len(keys) |-> [key |-> keys[k], value |-> obj[keys[k]]]]

\* Lines 160-162: one dispatch per entry.
AttributeDispatches(modId, obj) ==
  [k \in 1..Len(ObjectEntries(obj)) |->
     SetModAttribute(GAME_ID, modId, ObjectEntries(obj)[k].key, ObjectEntries(obj)[k].value)]

\* Lines 114-147: the early returns, then the list of mods Promise.each is
\* to visit.
MigrateFrom_1_2_2 ==
  /\ mgPhase = "idle"
  /\ IF \/ SemverGt(oldVersion, Version_1_2_2) /\ ~debugMode
        \/ Len(persistentMods) = 0
        \/ ~deployment
     THEN /\ mgPhase' = "done"
          /\ UNCHANGED nonNexusMods
     ELSE /\ mgPhase' = "each"
          /\ nonNexusMods' = SelectSeq(persistentMods, LAMBDA mod : mod.source # "nexus")
  /\ failedToMigrate' = <<>>
  /\ UNCHANGED <<persistentMods, oldVersion, deployment, storeWrites, notifications>>
  /\ UNCHANGED <<cmpVars, ucVars, mdVars, pjVars, icVars>>

\* Lines 148-153: util.walk collects the files of the next mod, then
\* readModMetadata is called on them; a failing walk rejects Promise.each.
WalkAndRead(walked) ==
  /\ mgPhase = "each"
  /\ nonNexusMods # <<>>
  /\ mdPhase = "idle"
  /\ IF walked.t = "walkError"
     THEN /\ mgPhase' = "rejecting"
          /\ UNCHANGED mdVars
     ELSE /\ ReadModMetadataCall(walked.files)
          /\ UNCHANGED mgPhase
  /\ UNCHANGED <<persistentMods, oldVersion, deployment, nonNexusMods, failedToMigrate,
                 storeWrites, notifications>>
  /\ UNCHANGED <<cmpVars, ucVars, pjVars, icVars>>

\* Mutant: the rejection of a read is not caught and rejects Promise.each.
MigrateMod_stop ==
  /\ mgPhase = "each"
  /\ nonNexusMods # <<>>
  /\ mdPhase \in {"resolved", "rejected"}
  /\ IF mdPhase = "rejected"
     THEN /\ mgPhase' = "rejecting"
          /\ UNCHANGED <<failedToMigrate, storeWrites>>
     ELSE /\ storeWrites' = storeWrites \o AttributeDispatches(Head(nonNexusMods).id, attributes)
          /\ UNCHANGED <<failedToMigrate, mgPhase>>
  /\ nonNexusMods' = Tail(nonNexusMods)
  /\ mdPhase' = "idle"
  /\ UNCHANGED <<files, mdError, attributes, filesRead, errorNotifications, parsed,
                 parsedVerCheckData, attributeEntries>>
  /\ UNCHANGED <<persistentMods, oldVersion, deployment, notifications>>
  /\ UNCHANGED <<cmpVars, ucVars, pjVars, icVars>>

\* Lines 154-164: the catch and then callbacks on the read of the current
\* mod.  The catch callback returns nothing, so after a failure attributes
\* is undefined and nothing is dispatched.
MigrateMod ==
  /\ mgPhase = "each"
  /\ nonNexusMods # <<>>
  /\ mdPhase \in {"resolved", "rejected"}
  /\ IF mdPhase = "rejected"
     THEN /\ failedToMigrate' = Append(failedToMigrate,
                                       [archiveId |-> Head(nonNexusMods).archiveId, e |-> mdError])
          /\ UNCHANGED storeWrites
     ELSE /\ storeWrites' = storeWrites \o AttributeDispatches(Head(nonNexusMods).id, attributes)
          /\ UNCHANGED failedToMigrate
  /\ nonNexusMods' = Tail(nonNexusMods)
  /\ mdPhase' = "idle"
  /\ UNCHANGED <<files, mdError, attributes, filesRead, errorNotifications, parsed,
                 parsedVerCheckData, attributeEntries>>
  /\ UNCHANGED <<persistentMods, oldVersion, deployment, mgPhase, notifications>>
  /\ UNCHANGED <<cmpVars, ucVars, pjVars, icVars>>

\* Lines 166-185: the finally callback, after the last mod or after a
\* failed walk.
MigrateFinally ==
  /\ \/ mgPhase = "each" /\ nonNexusMods = <<>> /\ mdPhase = "idle"
     \/ mgPhase = "rejecting"
  /\ notifications' = IF Len(failedToMigrate) > 0
                      THEN Append(notifications,
                                  [type |-> "warning", message |-> "Failed to migrate mods"])
                      ELSE notifications
  /\ mgPhase' = IF mgPhase = "rejecting" THEN "rejected" ELSE "done"
  /\ UNCHANGED <<persistentMods, oldVersion, deployment, nonNexusMods, failedToMigrate,
                 storeWrites>>
  /\ UNCHANGED <<cmpVars, ucVars, mdVars, pjVars, icVars>>

\* ------------------------------------------------------- migration inputs
PersistentMod(i, source) ==
  [id |-> i, archiveId |-> 10 + i, installationPath |-> i, source |-> source]

PersistentModLists(n) ==
  { f \in [1..n -> UNION {{PersistentMod(i, source) : source \in {"nexus", "other"}}
                            : i \in 1..n}] :
      \A i \in 1..n : f[i].id = i }

OldVersions == {Version_1_2_2, Str(<<"1", ".", "3", ".", "0">>)}

WalkError == [t |-> "walkError"]

\* What util.walk can collect in the staging folder of a mod.
Walked ==
  { WalkError,
    [t |-> "walked", files |-> <<>>],
    [t |-> "walked", files |-> <<AbsoluteFile(<<Folder, DataFileName>>)>>],
    [t |-> "walked", files |-> <<AbsoluteFile(<<Folder, MOD_INFO_FILE>>)>>],
    [t |-> "walked", files |-> <<AbsoluteFile(<<Folder, VersionFileName>>),
                                 AbsoluteFile(<<Folder, MOD_INFO_FILE>>)>>] }

\* The contents a migrated mod's mod_info.json and .version file can have.
MigratedPrimaryContents ==
  { ReadError, Unparsable,
    [t |-> "object",
     fields |-> [id |-> Undefined, name |-> Str(<<"n">>), author |-> Undefined,
                 gameVersion |-> Undefined, version |-> Undefined]],
    [t |-> "object",
     fields |-> [id |-> Str(<<"i">>), name |-> Str(<<"n">>), author |-> Str(<<"w">>),
                 gameVersion |-> Undefined, version |-> Str(<<" ", "1", ".", "2", " ">>)]] }

MigratedSecondaryContents ==
  { ReadError, Unparsable,
    [t |-> "object",
     fields |-> [modThreadId |-> Str(<<"7">>), modVersion |-> Str(<<"1", ".", "2">>),
                 masterVersionFile |-> Str(<<"u">>)]] }

\* --------------------------------------------------------- specifications
CmpIdle ==
  /\ localVersion = Null
  /\ remoteVersion = Null
  /\ cmpResult = "none"

UcIdle ==
  /\ gameId = GAME_ID
  /\ mods = <<>>
  /\ now = 0
  /\ ucPhase = "idle"
  /\ fetch = <<>>
  /\ silent = {}
  /\ pos = 0
  /\ progressEvents = <<>>
  /\ displayed = {}
  /\ dismissals = <<>>
  /\ updates = <<>>
  /\ attrWrites = <<>>

MdIdle ==
  /\ files = <<>>
  /\ mdPhase = "idle"
  /\ mdError = "none"
  /\ attributes = EmptyObject
  /\ filesRead = <<>>
  /\ errorNotifications = <<>>
  /\ parsed = Undefined
  /\ parsedVerCheckData = Undefined
  /\ attributeEntries = <<>>

PjIdle ==
  /\ json = <<>>
  /\ parserInput = Undefined

IcIdle ==
  /\ installFiles = <<>>
  /\ icPhase = "idle"
  /\ instructions = <<>>

MgIdle ==
  /\ persistentMods = <<>>
  /\ oldVersion = <<>>
  /\ deployment = FALSE
  /\ mgPhase = "idle"
  /\ nonNexusMods = <<>>
  /\ failedToMigrate = <<>>
  /\ storeWrites = <<>>
  /\ notifications = <<>>

\* The comparator on its own.
InitCmp ==
  /\ localVersion \in VersionArgs
  /\ remoteVersion \in VersionArgs
  /\ cmpResult = "none"
  /\ UcIdle
  /\ MdIdle
  /\ PjIdle
  /\ IcIdle
  /\ MgIdle

CallIsRemoteVersionNewer ==
  /\ cmpResult = "none"
  /\ cmpResult' = IsRemoteVersionNewer(localVersion, remoteVersion)
  /\ UNCHANGED <<localVersion, remoteVersion>>
  /\ UNCHANGED <<ucVars, mdVars, pjVars, icVars, mgVars>>

NextCmp == CallIsRemoteVersionNewer

SpecCmp == InitCmp /\ [][NextCmp]_vars

\* One update check.
InitUc ==
  /\ CmpIdle
  /\ MdIdle
  /\ PjIdle
  /\ IcIdle
  /\ MgIdle
  /\ gameId \in {GAME_ID, "skyrim"}
  /\ mods \in UNION {ModLists(n) : n \in 0..MaxMods}
  /\ now = 1
  /\ ucPhase = "idle"
  /\ fetch = <<>>
  /\ silent \in SUBSET (1..Len(mods))
  /\ pos = 0
  /\ progressEvents = <<>>
  /\ displayed = {}
  /\ dismissals = <<>>
  /\ updates = <<>>
  /\ attrWrites = <<>>

NextUc ==
  \/ CheckForStarsectorModsUpdates
  \/ \E i \in 1..MaxMods, outcome \in FetchOutcomes : FetchSettles(i, outcome)
  \/ JoinAndFilter
  \/ ApplyUpdate
  \/ DismissAndReturn

SpecUc == InitUc /\ [][NextUc]_vars

\* One metadata read.
InitMd ==
  /\ CmpIdle
  /\ UcIdle
  /\ PjIdle
  /\ IcIdle
  /\ MgIdle
  /\ files \in FileLists
  /\ mdPhase = "idle"
  /\ mdError = "none"
  /\ attributes = EmptyObject
  /\ filesRead = <<>>
  /\ errorNotifications = <<>>
  /\ parsed = Undefined
  /\ parsedVerCheckData = Undefined
  /\ attributeEntries = <<>>

NextMd ==
  \/ ReadModMetadata
  \/ \E content \in PrimaryContents : PrimaryRead(content)
  \/ \E content \in SecondaryContents : SecondaryRead(content)

SpecMd == InitMd /\ [][NextMd]_vars

\* The update check under the scheduling the event loop guarantees: every
\* continuation that is ready to run does run, and the request to a remote
\* that is not silent ends.
FairSpecUc ==
  /\ InitUc
  /\ [][NextUc]_vars
  /\ WF_vars(CheckForStarsectorModsUpdates)
  /\ WF_vars(\E i \in 1..MaxMods, outcome \in FetchOutcomes : FetchSettles(i, outcome))
  /\ WF_vars(JoinAndFilter)
  /\ WF_vars(ApplyUpdate)
  /\ WF_vars(DismissAndReturn)

\* One call of parseJson.
InitPj ==
  /\ CmpIdle
  /\ UcIdle
  /\ MdIdle
  /\ IcIdle
  /\ MgIdle
  /\ json \in Documents
  /\ parserInput = Undefined

NextPj == ParseJson

SpecPj == InitPj /\ [][NextPj]_vars

\* One installation from an archive.
InitIc ==
  /\ CmpIdle
  /\ UcIdle
  /\ MdIdle
  /\ PjIdle
  /\ MgIdle
  /\ installFiles \in ArchiveLists
  /\ icPhase = "idle"
  /\ instructions = <<>>

NextIc ==
  \/ InstallContent
  \/ \E content \in PrimaryContents : PrimaryRead(content)
  \/ \E content \in SecondaryContents : SecondaryRead(content)
  \/ InstallInstructions

SpecIc == InitIc /\ [][NextIc]_vars

\* One migration.
InitMg ==
  /\ CmpIdle
  /\ UcIdle
  /\ MdIdle
  /\ PjIdle
  /\ IcIdle
  /\ persistentMods \in UNION {PersistentModLists(n) : n \in 0..MaxMigrated}
  /\ oldVersion \in OldVersions
  /\ deployment \in BOOLEAN
  /\ mgPhase = "idle"
  /\ nonNexusMods = <<>>
  /\ failedToMigrate = <<>>
  /\ storeWrites = <<>>
  /\ notifications = <<>>

NextMg ==
  \/ MigrateFrom_1_2_2
  \/ \E walked \in Walked : WalkAndRead(walked)
  \/ \E content \in MigratedPrimaryContents : PrimaryRead(content)
  \/ \E content \in MigratedSecondaryContents : SecondaryRead(content)
  \/ MigrateMod
  \/ MigrateFinally

SpecMg == InitMg /\ [][NextMg]_vars

\* ------------------------------------------------------------ properties
BoolString(b) == IF b THEN "true" ELSE "false"

NonEmptyString(v) == v.t = "str" /\ v.s # <<>>

AbsentOrEmpty(v) == ~NonEmptyString(v)

Compared == cmpResult # "none"

\* The text before the first '-'.
ReleasePart(v) == Split(v.s, Dash)[1]

DotSegments(v) == Split(ReleasePart(v), Dot)

\* First index, present in both, at which the dot-separated segments of
\* the release parts differ; 0 when there is none.
FirstDifference(a, b) ==
  LET sa == DotSegments(a)
      sb == DotSegments(b)
      d == {k \in 1..Len(sa) : k <= Len(sb) /\ sa[k] # sb[k]}
  IN IF d = {} THEN 0 ELSE CHOOSE k \in d : \A j \in d : k <= j

\* a > b in the lexicographic order of code units.
RECURSIVE LexGreater(_, _)
LexGreater(a, b) ==
  IF a = <<>> THEN FALSE
  ELSE IF b = <<>> THEN TRUE
  ELSE IF CharCode(Head(a)) # CharCode(Head(b)) THEN CharCode(Head(a)) > CharCode(Head(b))
  ELSE LexGreater(Tail(a), Tail(b))

\* The release-candidate integer: the digits of the text after the first
\* '-', 0 when there is no '-' or no digit.
RcInteger(v) ==
  LET i == IndexOf(v.s, Dash)
      digits == IF i = 0 THEN <<>>
                ELSE SelectSeq(SubSeq(v.s, i + 1, Len(v.s)), IsDigit)
  IN DigitsValue(digits, 0)

\* C1: isRemoteVersionNewer returns false, without throwing, whenever
\* either argument is null, undefined or the empty string.
C1_EmptyArgumentIsNotNewer ==
  (Compared /\ (AbsentOrEmpty(localVersion) \/ AbsentOrEmpty(remoteVersion)))
    => cmpResult = "false"

\* C2: when the release parts of two non-empty versions differ at a segment
\* present in both, the result is whether remote's first differing segment,
\* right-padded with '0' to width 3, is lexicographically greater than
\* local's.
C2_FirstDifferingSegmentDecides ==
  (Compared /\ NonEmptyString(localVersion) /\ NonEmptyString(remoteVersion)
     /\ FirstDifference(localVersion, remoteVersion) > 0)
    => LET k == FirstDifference(localVersion, remoteVersion)
       IN cmpResult = BoolString(LexGreater(PadEnd(DotSegments(remoteVersion)[k], 3, "0"),
                                            PadEnd(DotSegments(localVersion)[k], 3, "0")))

\* C3: when one release part is a strict dot-prefix of the other, the
\* result is whether remote has more segments than local.
C3_LongerDotPrefixIsNewer ==
  (Compared /\ NonEmptyString(localVersion) /\ NonEmptyString(remoteVersion)
     /\ ReleasePart(localVersion) # ReleasePart(remoteVersion)
     /\ FirstDifference(localVersion, remoteVersion) = 0)
    => cmpResult = BoolString(Len(DotSegments(remoteVersion)) > Len(DotSegments(localVersion)))

\* C4: when the release parts are identical, the result is whether the
\* remote release-candidate integer exceeds the local one.
C4_ReleaseCandidateDecides ==
  (Compared /\ NonEmptyString(localVersion) /\ NonEmptyString(remoteVersion)
     /\ ReleasePart(localVersion) = ReleasePart(remoteVersion))
    => cmpResult = BoolString(RcInteger(remoteVersion) > RcInteger(localVersion))

\* The check of a non-empty mod set of this game has returned normally.
CheckCompleted == ucPhase = "done" /\ gameId = GAME_ID /\ Len(mods) > 0

Written(i, key, value) ==
  \E k \in 1..Len(attrWrites) :
    attrWrites[k] = SetModAttribute(GAME_ID, i, key, value)

WrittenKey(i, key) ==
  \E k \in 1..Len(attrWrites) : attrWrites[k].modId = i /\ attrWrites[k].key = key

\* The remote of mod i served a descriptor whose modVersion is newer than
\* the mod's displayVersion.
HasNewerRemote(i) ==
  /\ fetch[i].st = "settled"
  /\ fetch[i].outcome.kind = "ok"
  /\ IsRemoteVersionNewer(mods[i].attributes[ModAttributes.displayVersion],
                          fetch[i].outcome.modVersion) = "true"

\* C5: a completed check has set onlineVersion (the remote version) and
\* lastUpdateTime (the check time) for exactly the mods whose remote
\* descriptor is newer than their displayVersion.
C5_UpdateSetIsNewerRemotes ==
  CheckCompleted =>
    \A i \in 1..Len(mods) :
      /\ HasNewerRemote(i) =>
           /\ Written(i, "onlineVersion", fetch[i].outcome.modVersion)
           /\ Written(i, ModAttributes.lastUpdateTime, now)
      /\ ~HasNewerRemote(i) =>
           /\ ~WrittenKey(i, "onlineVersion")
           /\ ~WrittenKey(i, ModAttributes.lastUpdateTime)

FetchFailed(i) == fetch[i].st = "settled" /\ fetch[i].outcome.kind \in FetchFailures

\* Every mod carries details on which the comparison itself cannot throw.
ComparableMods ==
  \A i \in 1..Len(mods) :
    /\ mods[i].attributes.modId.t = "details"
    /\ ~FilterThrows(mods, mods[i].attributes.modId)

\* C6: a fetch failure for one mod does not abort the batch: once every
\* fetch has settled the check goes on to its normal completion and the
\* failing mod gets no attribute update.
C6_FetchFailureDoesNotAbort ==
  (/\ ucPhase # "idle"
   /\ ucPhase # "fetching"
   /\ ComparableMods
   /\ \E i \in DOMAIN fetch : FetchFailed(i))
    => /\ ucPhase \in {"applying", "done"}
       /\ \A i \in DOMAIN fetch :
            FetchFailed(i) => \A k \in 1..Len(attrWrites) : attrWrites[k].modId # i

\* C7: a completed check over N mods has emitted exactly N+2 progress
\* events, whose percentage starts at 0, never decreases, never exceeds
\* 100 and ends at 100.
C7_ProgressEventCount ==
  CheckCompleted =>
    /\ Len(progressEvents) = Len(mods) + 2
    /\ progressEvents[1].pos = 0
    /\ \A k \in 1..Len(progressEvents) : progressEvents[k].pos <= progressEvents[k].total
    /\ \A k \in 1..(Len(progressEvents) - 1) : progressEvents[k].pos <= progressEvents[k + 1].pos
    /\ progressEvents[Len(progressEvents)].pos = progressEvents[Len(progressEvents)].total

\* C8: once a check over a non-empty mod set has completed, the progress
\* notification it posted is no longer displayed.
C8_ProgressNotificationDismissed ==
  CheckCompleted => ProgressNotificationId \notin displayed

\* C9: an update check eventually ends, also when a remote never answers.
C9_CheckEventuallyEnds == <>(ucPhase \in {"done", "rejected"})

\* The check does end when every remote answers or fails.
CheckEndsWhenRemotesAnswer == <>(silent # {} \/ ucPhase \in {"done", "rejected"})

HasModInfoFile == \E k \in 1..Len(files) : files[k][Len(files[k])] = MOD_INFO_FILE

\* C10: a metadata read of a file list without a file named exactly
\* mod_info.json is rejected with the missing-descriptor error; it sets no
\* attribute, reads no file and raises no notification.
C10_MissingModInfoRejects ==
  (mdPhase # "idle" /\ ~HasModInfoFile)
    => /\ mdPhase = "rejected"
       /\ mdError = "DataInvalid: mod_info.json not found in a folder"
       /\ attributes = EmptyObject
       /\ filesRead = <<>>
       /\ errorNotifications = <<>>

\* A read rejected for a list that holds near misses only: a longer base
\* name ending in mod_info.json, or a file inside a folder of that name.
C10_Witness ==
  /\ mdPhase = "rejected"
  /\ ~HasModInfoFile
  /\ \E k \in 1..Len(files) :
       files[k] \in {<<Folder, PrefixedModInfoName>>, <<MOD_INFO_FILE, DataFileName>>}

\* The keys readModMetadata derives from mod_info.json.
PrimaryKeys ==
  { ModAttributes.modSharedId, ModAttributes.modVariantId, ModAttributes.modName,
    ModAttributes.author, ModAttributes.gameVersion, ModAttributes.displayVersion }

\* The keys readModMetadata derives from the .version file.
SecondaryKeys ==
  { ModAttributes.forumThreadId, ModAttributes.source,
    ModAttributes.localVersionCheckerVersion, ModAttributes.onlineVersionUrl }

ReadSettled == mdPhase \in {"resolved", "rejected"}

\* mod_info.json was read and parseJson threw on its text.
PrimaryUnparsable ==
  /\ filesRead # <<>>
  /\ ReadSettled
  /\ parsed = Undefined
  /\ mdError # "ReadError"

\* C11: when mod_info.json exists but does not parse, the read resolves, and
\* none of the primary-derived keys is set in the mapping it resolves with.
C11_UnparsableModInfoResolvesEmpty ==
  PrimaryUnparsable =>
    /\ mdPhase = "resolved"
    /\ \A key \in PrimaryKeys : key \notin DOMAIN attributes
    /\ attributeEntries = <<>>

\* An unparsable mod_info.json next to a .version file.
C11_Witness ==
  /\ PrimaryUnparsable
  /\ mdPhase = "resolved"
  /\ FindVersionCheckerFile(files).t = "path"

\* mod_info.json parsed, and the parsed data has no id key.
ParsedWithoutId ==
  /\ parsed.t \in {"null", "object"}
  /\ (parsed.t = "object" => parsed.fields.id.t = "undefined")

\* C12: when mod_info.json parses but has no id key, the read is rejected
\* with DataInvalid, whatever else the data or the file list holds.
C12_MissingIdRejects ==
  ParsedWithoutId =>
    /\ mdPhase = "rejected"
    /\ mdError = "DataInvalid: Missing, invalid or unsupported mod_info.json"

\* mod_info.json parsed to an object with an id, and the primary attributes
\* have been set.
ParsedObjectWithId ==
  /\ parsed.t = "object"
  /\ parsed.fields.id.t # "undefined"

IsEmptyString(v) == v.t = "str" /\ v.s = <<>>

\* C13: with an id present, each attribute derived from a missing name,
\* author or gameVersion is the empty string.
C13_MissingKeysGiveEmptyString ==
  ParsedObjectWithId =>
    /\ parsed.fields.name.t = "undefined" =>
         /\ IsEmptyString(attributes[ModAttributes.modName])
         /\ IsEmptyString(attributes[ModAttributes.modVariantId])
    /\ parsed.fields.author.t = "undefined" =>
         IsEmptyString(attributes[ModAttributes.author])
    /\ parsed.fields.gameVersion.t = "undefined" =>
         IsEmptyString(attributes[ModAttributes.gameVersion])

\* C14: displayVersion is the normalized version of mod_info.json: a string
\* trimmed, a {major, minor, patch} structure joined by dots.
C14_DisplayVersionIsNormalized ==
  (ParsedObjectWithId /\ parsed.fields.version.t \in {"str", "version"}) =>
    /\ ModAttributes.displayVersion \in DOMAIN attributes
    /\ attributes[ModAttributes.displayVersion] = ConcatVersionObject(parsed.fields.version)

\* mod_info.json parsed and was accepted: its id is not undefined.
PrimaryAccepted ==
  /\ parsed.t \in {"null", "object"}
  /\ GetAttr(parsed, "id").t # "undefined"

HasVersionCheckerFile == FindVersionCheckerFile(files).t = "path"

\* The .version file was read and parseJson threw on its text.
SecondaryUnparsable ==
  /\ PrimaryAccepted
  /\ HasVersionCheckerFile
  /\ ReadSettled
  /\ parsedVerCheckData = Undefined
  /\ mdError # "ReadError"

PrimaryIntact ==
  \A key \in DOMAIN PrimaryAttributes(EmptyObject, parsed) :
    /\ key \in DOMAIN attributes
    /\ attributes[key] = PrimaryAttributes(EmptyObject, parsed)[key]

\* C15: with mod_info.json accepted, the read resolves with the primary
\* attributes both without a .version file and with one that does not
\* parse, which is reported once; the primary attributes are never changed
\* by the second step, and a secondary key is set only after the .version
\* file has parsed.
C15_VersionFileNeverFailsRead ==
  /\ PrimaryAccepted => PrimaryIntact
  /\ (PrimaryAccepted /\ ~HasVersionCheckerFile) =>
       /\ mdPhase = "resolved"
       /\ errorNotifications = <<>>
  /\ SecondaryUnparsable =>
       /\ mdPhase = "resolved"
       /\ Len(errorNotifications) = 1
  /\ \A key \in SecondaryKeys :
       key \in DOMAIN attributes => parsedVerCheckData.t \in {"null", "object"}

\* An accepted mod_info.json whose .version file did not parse.
C15_Witness ==
  /\ SecondaryUnparsable
  /\ mdPhase = "resolved"
  /\ ModAttributes.modSharedId \in DOMAIN attributes

\* The enumerated attributes, each under the key string class ModAttributes
\* gives it; onlineVersion has no member there.
EnumeratedKeys ==
  {ModAttributes[name] : name \in DOMAIN ModAttributes} \cup {"onlineVersion"}

\* C16: every attribute key written, into the mapping of a metadata read or
\* through setModAttribute, belongs to the enumerated set.
C16_OnlyEnumeratedKeys ==
  /\ DOMAIN attributes \subseteq EnumeratedKeys
  /\ \A k \in 1..Len(attrWrites) : attrWrites[k].key \in EnumeratedKeys
  /\ \A k \in 1..Len(storeWrites) : storeWrites[k].key \in EnumeratedKeys

FetchInFlight == \E i \in DOMAIN fetch : fetch[i].st = "pending"

\* C19: no setModAttribute is dispatched while the request of any mod is
\* still in flight.
C19_NoWriteBeforeJoin ==
  [][attrWrites' # attrWrites => ~FetchInFlight /\ ~FetchInFlight']_vars

\* Attributes written in a check of several mods.
C19_Witness ==
  /\ attrWrites # <<>>
  /\ Len(mods) >= 2
  /\ ~FetchInFlight

\* C17: a '#' comment outside any string is dropped whole, also when it
\* holds a second '#', and a quoted string holding a '#' is kept verbatim:
\* the text handed to the parser is the document without its comments.
C17_CommentsStrippedOutsideStrings ==
  parserInput # Undefined =>
    \A lines \in LineSeqs :
      json = Document(lines, TRUE) => parserInput.s = Document(lines, FALSE)

AttributeInstructionsOf(key) ==
  {k \in 1..Len(instructions) :
     instructions[k].type = "attribute" /\ instructions[k].key = key}

\* C18: an installation whose mod_info.json parsed yields one 'attribute'
\* instruction per attribute readModMetadata set, with that key and that
\* value, all of them before the copy instructions.
C18_AttributeInstructionPerAttribute ==
  (icPhase = "resolved" /\ ParsedObjectWithId) =>
    /\ \A key \in DOMAIN attributes :
         /\ Cardinality(AttributeInstructionsOf(key)) = 1
         /\ \A k \in AttributeInstructionsOf(key) : instructions[k].value = attributes[key]
    /\ \A j, k \in 1..Len(instructions) :
         (instructions[j].type = "attribute" /\ instructions[k].type = "copy") => j < k

\* The read of the mod Promise.each is visiting has ended.
MigratedReadEnded ==
  /\ mgPhase = "each"
  /\ nonNexusMods # <<>>
  /\ mdPhase \in {"resolved", "rejected"}

\* The dispatches added by the step are exactly the attributes of the read,
\* for the mod being visited.
WritesAttributesOf(mod) ==
  /\ Len(storeWrites') = Len(storeWrites) + Cardinality(DOMAIN attributes)
  /\ SubSeq(storeWrites', 1, Len(storeWrites)) = storeWrites
  /\ \A k \in (Len(storeWrites) + 1)..Len(storeWrites') :
       /\ storeWrites'[k].gameId = GAME_ID
       /\ storeWrites'[k].modId = mod.id
  /\ \A key \in DOMAIN attributes :
       \E k \in (Len(storeWrites) + 1)..Len(storeWrites') :
         /\ storeWrites'[k].key = key
         /\ storeWrites'[k].value = attributes[key]

\* C20: a failed metadata read does not stop the migration: the mod gets no
\* attribute and is recorded as failed, the next mod is visited, a mod whose
\* read succeeded gets the attributes of its own read, and one warning
\* 'Failed to migrate mods' is sent at the end exactly if a mod failed.
C20_FailedReadDoesNotStopMigration ==
  /\ [][ MigratedReadEnded =>
           /\ mgPhase' = "each"
           /\ nonNexusMods' = Tail(nonNexusMods)
           /\ IF mdPhase = "rejected"
              THEN /\ storeWrites' = storeWrites
                   /\ Len(failedToMigrate') = Len(failedToMigrate) + 1
                   /\ failedToMigrate'[Len(failedToMigrate')].archiveId
                        = Head(nonNexusMods).archiveId
              ELSE /\ failedToMigrate' = failedToMigrate
                   /\ WritesAttributesOf(Head(nonNexusMods)) ]_vars
  /\ [](mgPhase \notin {"done", "rejected"} => notifications = <<>>)
  /\ [](mgPhase = "done" => nonNexusMods = <<>>)
  /\ [](mgPhase \in {"done", "rejected"} =>
          notifications = IF failedToMigrate # <<>>
                          THEN <<[type |-> "warning", message |-> "Failed to migrate mods"]>>
                          ELSE <<>>)

\* A finished migration in which one mod failed and a later mod had its
\* attributes written.
C20_Witness ==
  /\ mgPhase = "done"
  /\ Len(notifications) = 1
  /\ \E j \in 1..Len(failedToMigrate), k \in 1..Len(storeWrites) :
       failedToMigrate[j].archiveId < 10 + storeWrites[k].modId

====
